---- MODULE Spec2Model ----
(***************************************************************************)
(* SSTable builder (table/builder.rs) and SSTable iterator                 *)
(* (table/iterator.rs) of mini-lsm-starter.                                *)
(*                                                                         *)
(* The builder's fields, the persisted buffer and the iterator's cursor    *)
(* are the state.  All buffers are kept at byte level.  The collaborators  *)
(* whose code is outside the two files (block codec, BlockMeta codec,      *)
(* bloom filter, the read side of SsTable) follow the written design.      *)
(***************************************************************************)
EXTENDS Integers, Sequences, FiniteSets, TLC

VARIABLES
    pc,          \* "building" | "built" | "build_failed" | "panicked"
    builder,     \* SsTableBuilder.builder: entries of the open block
    first_key,   \* SsTableBuilder.first_key
    last_key,    \* SsTableBuilder.last_key
    data,        \* SsTableBuilder.data
    meta,        \* SsTableBuilder.meta
    block_size,  \* SsTableBuilder.block_size
    key_hashes,  \* SsTableBuilder.key_hashes
    max_ts,      \* SsTableBuilder.max_ts
    file,        \* the persisted bytes (handed to FileObject::create)
    corrupted,   \* history: the offset (from 1) of the byte changed on disk, or 0
    table,       \* the SsTable returned by build()
    it,          \* the SsTableIterator (blk_idx, blk_iter) when one exists
    readers,     \* the SsTableIterators that share the table, by reader
    scan,        \* history: the entries a forward scan has yielded so far
    added,       \* history: the (key, value) arguments of the add() calls
    seen_ts,     \* history: the timestamps the add() calls observed
    blocks,      \* history: the entries of each finalized block
    last_op      \* history: the last call and its outcome

builder_vars == <<builder, first_key, last_key, data, meta, block_size,
                  key_hashes, max_ts>>

vars == <<pc, builder_vars, file, corrupted, table, it, readers, scan, added,
         seen_ts, blocks, last_op>>

----------------------------------------------------------------------------
(* Bounds of the model *)

MaxAdds == 3
MaxBlkIdx == 4

(* Inputs *)
Keys == {<<>>, <<1>>, <<1, 1>>, <<2>>}
SeekKeys == Keys \cup {<<3>>}
Values == {<<>>, <<7>>}
BlockSizes == {4, 7, 12}
Timestamps == {1, 2}

----------------------------------------------------------------------------
(* Keys: byte strings in lexicographic order *)

RECURSIVE KeyLess(_, _)
KeyLess(a, b) ==
    IF b = <<>> THEN FALSE
    ELSE IF a = <<>> THEN TRUE
    ELSE IF Head(a) # Head(b) THEN Head(a) < Head(b)
    ELSE KeyLess(Tail(a), Tail(b))

KeyLeq(a, b) == a = b \/ KeyLess(a, b)

----------------------------------------------------------------------------
(* u32 and its 4-byte encoding.  The width of u32 is reduced to U32Bits.   *)

U32Bits == 8
U32Mod == 2 ^ U32Bits

\* `x as u32`
AsU32(x) == x % U32Mod

put_u32_le(v) ==
    <<v % 256, (v \div 256) % 256, (v \div 65536) % 256, (v \div 16777216) % 256>>

\* put_u32 with the bytes in the opposite order
put_u32_swapped(v) ==
    <<v % 256, (v \div 256) % 256, (v \div 65536) % 256, (v \div 16777216) % 256>>

\* BufMut::put_u32: big-endian
put_u32(v) ==
    <<(v \div 16777216) % 256, (v \div 65536) % 256, (v \div 256) % 256, v % 256>>

----------------------------------------------------------------------------
(* Xxh32 with seed 0, at the reduced width.  What the model keeps of the   *)
(* digest: it is a function of the length and of every byte, and two       *)
(* inputs of one length that differ in a single byte have different        *)
(* digests (each step is a bijection of the accumulator for a fixed        *)
(* input).  The accumulators of the two halves of the input are merged as  *)
(* xxh32 merges its lanes: rotate, multiply by an odd prime, add.          *)

RotL(x, r) == ((x * (2 ^ r)) % U32Mod) + (x \div (2 ^ (U32Bits - r)))

RECURSIVE Xor(_, _)
Xor(a, b) ==
    IF a = 0 /\ b = 0 THEN 0
    ELSE (((a % 2) + (b % 2)) % 2) + 2 * Xor(a \div 2, b \div 2)

\* The accumulator over bytes[lo .. hi]
RECURSIVE Xxh32Update(_, _, _)
Xxh32Update(bytes, lo, hi) ==
    IF lo > hi THEN 0
    ELSE IF lo = hi THEN (RotL((bytes[lo] * 177) % U32Mod, 3) * 177) % U32Mod
    ELSE (RotL(Xxh32Update(bytes, lo, (lo + hi) \div 2), 1) * 119
          + RotL(Xxh32Update(bytes, ((lo + hi) \div 2) + 1, hi), 3) * 61) % U32Mod

\* The final mix: xor-shift and multiply
Xxh32Avalanche(h) ==
    LET h1 == (Xor(h, h \div 16) * 119) % U32Mod
        h2 == (Xor(h1, h1 \div 8) * 61) % U32Mod
    IN  Xor(h2, h2 \div 16)

\* Xxh32::new(0), update(bytes), digest()
Xxh32(bytes) ==
    Xxh32Avalanche((177 + Len(bytes) + Xxh32Update(bytes, 1, Len(bytes))) % U32Mod)

----------------------------------------------------------------------------
(* Block codec: entries as [key_len, key, value_len, value], then the      *)
(* number of entries.                                                      *)

Entry(k, v) == [key |-> k, value |-> v]

EntryBytes(e) == <<Len(e.key)>> \o e.key \o <<Len(e.value)>> \o e.value

RECURSIVE EncodeEntries(_)
EncodeEntries(es) ==
    IF es = <<>> THEN <<>>
    ELSE EntryBytes(Head(es)) \o EncodeEntries(Tail(es))

\* BlockBuilder::build().encode()
BlockEncode(es) == EncodeEntries(es) \o <<Len(es)>>

\* BlockBuilder::add: the entry is accepted when the block stays in its budget
BlockBuilderAdd(es, e, size) == Len(BlockEncode(Append(es, e))) <= size

RECURSIVE DecodeEntries(_, _, _)
DecodeEntries(bytes, pos, n) ==
    IF n = 0 \/ pos >= Len(bytes) THEN <<>>
    ELSE LET kl == bytes[pos]
             vp == pos + 1 + kl
         IN  IF vp >= Len(bytes) THEN <<>>
             ELSE LET vl == bytes[vp]
                      np == vp + 1 + vl
                  IN  IF np > Len(bytes) THEN <<>>
                      ELSE <<Entry(SubSeq(bytes, pos + 1, pos + kl),
                                   SubSeq(bytes, vp + 1, vp + vl))>>
                           \o DecodeEntries(bytes, np, n - 1)

\* Block::decode
BlockDecode(bytes) ==
    IF bytes = <<>> THEN <<>>
    ELSE DecodeEntries(bytes, 1, bytes[Len(bytes)])

----------------------------------------------------------------------------
(* BlockMeta codec: offset, length-prefixed first key, length-prefixed     *)
(* last key per entry.                                                     *)

BlockMeta(off, fk, lk) == [offset |-> off, first_key |-> fk, last_key |-> lk]

RECURSIVE encode_block_meta(_)
encode_block_meta(ms) ==
    IF ms = <<>> THEN <<>>
    ELSE put_u32_le(Head(ms).offset)
         \o <<Len(Head(ms).first_key)>> \o Head(ms).first_key
         \o <<Len(Head(ms).last_key)>> \o Head(ms).last_key
         \o encode_block_meta(Tail(ms))

----------------------------------------------------------------------------
(* Bloom filter *)

\* -ln(0.01) / ln(2)^2 = 9.59, rounded up
bloom_bits_per_key(entries) == 10

BloomProbes(bits_per_key) ==
    LET k == (bits_per_key * 69) \div 100
    IN  IF k < 1 THEN 1 ELSE IF k > 30 THEN 30 ELSE k

BloomPositions(h, nbits, k) ==
    IF nbits = 0 THEN {}
    ELSE {((h + i * RotL(h, 4)) % U32Mod) % nbits : i \in 0 .. (k - 1)}

build_from_key_hashes(hashes, bits_per_key) ==
    LET nbits == ((Len(hashes) * bits_per_key + 7) \div 8) * 8
        k == BloomProbes(bits_per_key)
    IN  [nbits |-> nbits,
         k |-> k,
         bits |-> UNION {BloomPositions(hashes[i], nbits, k) : i \in 1 .. Len(hashes)}]

may_contain(bloom, h) == BloomPositions(h, bloom.nbits, bloom.k) \subseteq bloom.bits

BloomBit(bloom, p) == IF p \in bloom.bits THEN 1 ELSE 0

BloomByte(bloom, j) ==
    BloomBit(bloom, 8 * j) + 2 * BloomBit(bloom, 8 * j + 1)
    + 4 * BloomBit(bloom, 8 * j + 2) + 8 * BloomBit(bloom, 8 * j + 3)
    + 16 * BloomBit(bloom, 8 * j + 4) + 32 * BloomBit(bloom, 8 * j + 5)
    + 64 * BloomBit(bloom, 8 * j + 6) + 128 * BloomBit(bloom, 8 * j + 7)

\* Bloom::encode: the raw bits, then the probe count
bloom_encode(bloom) ==
    [j \in 1 .. (bloom.nbits \div 8) |-> BloomByte(bloom, j - 1)] \o <<bloom.k>>

----------------------------------------------------------------------------
(* SsTableBuilder *)

Self == [builder |-> builder, first_key |-> first_key, last_key |-> last_key,
         data |-> data, meta |-> meta, block_size |-> block_size,
         key_hashes |-> key_hashes, max_ts |-> max_ts]

\* SsTableBuilder::new
new(size) == [builder |-> <<>>, first_key |-> <<>>, last_key |-> <<>>,
              data |-> <<>>, meta |-> <<>>, block_size |-> size,
              key_hashes |-> <<>>, max_ts |-> 0]

\* estimated_size() that also counts the open block
estimated_size_open(s) == Len(s.data) + Len(BlockEncode(s.builder))

\* SsTableBuilder::estimated_size
estimated_size(s) == Len(s.data)

\* finish_block() that records the offset after the block was appended
finish_block_offset_after(s) ==
    [s EXCEPT !.builder = <<>>,
              !.meta = Append(s.meta,
                              BlockMeta(Len(s.data) + Len(BlockEncode(s.builder)) + 4,
                                        s.first_key, s.last_key)),
              !.first_key = <<>>,
              !.last_key = <<>>,
              !.data = s.data \o BlockEncode(s.builder)
                       \o put_u32(Xxh32(BlockEncode(s.builder)))]

\* finish_block() whose hasher is never fed the block
finish_block_no_update(s) ==
    [s EXCEPT !.builder = <<>>,
              !.meta = Append(s.meta, BlockMeta(Len(s.data), s.first_key, s.last_key)),
              !.first_key = <<>>,
              !.last_key = <<>>,
              !.data = s.data \o BlockEncode(s.builder) \o put_u32(Xxh32(<<>>))]

\* SsTableBuilder::finish_block
finish_block(s) ==
    LET encoded_block == BlockEncode(s.builder)
        checksum == Xxh32(encoded_block)
    IN  [s EXCEPT !.builder = <<>>,
                  !.meta = Append(s.meta, BlockMeta(Len(s.data), s.first_key, s.last_key)),
                  !.first_key = <<>>,
                  !.last_key = <<>>,
                  !.data = s.data \o encoded_block \o put_u32(checksum)]

\* The retry without the assertion: a rejected entry is dropped
unchecked_add(s, key, value) ==
    IF BlockBuilderAdd(s.builder, Entry(key, value), s.block_size)
    THEN [ok |-> TRUE, s |-> [s EXCEPT !.builder = Append(@, Entry(key, value))]]
    ELSE [ok |-> TRUE, s |-> s]

\* assert!(self.builder.add(key, value)) on the fresh block
assert_add(s, key, value) ==
    IF BlockBuilderAdd(s.builder, Entry(key, value), s.block_size)
    THEN [ok |-> TRUE, s |-> [s EXCEPT !.builder = Append(@, Entry(key, value))]]
    ELSE [ok |-> FALSE, s |-> s]

\* add() that takes the timestamp of the call as the watermark
add_last_ts(s, key, value, timestamp) ==
    LET s1 == IF s.first_key = <<>> THEN [s EXCEPT !.first_key = key] ELSE s
        s2 == [s1 EXCEPT !.max_ts = timestamp]
        s3 == [s2 EXCEPT !.key_hashes = Append(@, Xxh32(key))]
    IN  IF BlockBuilderAdd(s3.builder, Entry(key, value), s3.block_size)
        THEN [ok |-> TRUE,
              s |-> [s3 EXCEPT !.builder = Append(@, Entry(key, value)),
                               !.last_key = key]]
        ELSE LET r == assert_add(finish_block(s3), key, value)
             IN  IF r.ok
                 THEN [ok |-> TRUE,
                       s |-> [r.s EXCEPT !.first_key = key, !.last_key = key]]
                 ELSE [ok |-> FALSE, s |-> r.s]

\* add() that records the hash of the key only when the open block took
\* the entry
add_hash_on_accept(s, key, value, timestamp) ==
    LET s1 == IF s.first_key = <<>> THEN [s EXCEPT !.first_key = key] ELSE s
        s2 == IF timestamp > s1.max_ts THEN [s1 EXCEPT !.max_ts = timestamp] ELSE s1
    IN  IF BlockBuilderAdd(s2.builder, Entry(key, value), s2.block_size)
        THEN [ok |-> TRUE,
              s |-> [s2 EXCEPT !.builder = Append(@, Entry(key, value)),
                               !.key_hashes = Append(@, Xxh32(key)),
                               !.last_key = key]]
        ELSE LET r == assert_add(finish_block(s2), key, value)
             IN  IF r.ok
                 THEN [ok |-> TRUE,
                       s |-> [r.s EXCEPT !.first_key = key, !.last_key = key]]
                 ELSE [ok |-> FALSE, s |-> r.s]

\* SsTableBuilder::add; ok = FALSE when the assertion fails
add(s, key, value, timestamp) ==
    LET s1 == IF s.first_key = <<>> THEN [s EXCEPT !.first_key = key] ELSE s
        s2 == IF timestamp > s1.max_ts THEN [s1 EXCEPT !.max_ts = timestamp] ELSE s1
        s3 == [s2 EXCEPT !.key_hashes = Append(@, Xxh32(key))]
    IN  IF BlockBuilderAdd(s3.builder, Entry(key, value), s3.block_size)
        THEN [ok |-> TRUE,
              s |-> [s3 EXCEPT !.builder = Append(@, Entry(key, value)),
                               !.last_key = key]]
        ELSE LET r == assert_add(finish_block(s3), key, value)
             IN  IF r.ok
                 THEN [ok |-> TRUE,
                       s |-> [r.s EXCEPT !.first_key = key, !.last_key = key]]
                 ELSE [ok |-> FALSE, s |-> r.s]

\* build() that writes the bloom section before the BlockMeta section
build_buf_bloom_first(s) ==
    LET bloom == build_from_key_hashes(s.key_hashes,
                                       bloom_bits_per_key(Len(s.key_hashes)))
        bloom_offset == Len(s.data)
        buf1 == s.data \o bloom_encode(bloom) \o put_u32(AsU32(bloom_offset))
        meta_offset == Len(buf1)
        buf2 == buf1 \o encode_block_meta(s.meta) \o put_u32(AsU32(meta_offset))
    IN  buf2 \o put_u32(Xxh32(buf2))

\* The buffer assembled by build() from the builder after its finish_block()
build_buf(s) ==
    LET meta_offset == Len(s.data)
        buf1 == s.data \o encode_block_meta(s.meta) \o put_u32(AsU32(meta_offset))
        bloom == build_from_key_hashes(s.key_hashes,
                                       bloom_bits_per_key(Len(s.key_hashes)))
        bloom_offset == Len(buf1)
        buf2 == buf1 \o bloom_encode(bloom) \o put_u32(AsU32(bloom_offset))
    IN  buf2 \o put_u32(Xxh32(buf2))

\* The SsTable returned by build()
build_table(s) ==
    [first_key |-> s.meta[1].first_key,
     last_key |-> s.meta[Len(s.meta)].last_key,
     block_meta |-> s.meta,
     block_meta_offset |-> Len(s.data),
     bloom |-> build_from_key_hashes(s.key_hashes,
                                     bloom_bits_per_key(Len(s.key_hashes))),
     max_ts |-> s.max_ts]

\* SsTableBuilder::build
build(s) ==
    LET s1 == finish_block(s)
    IN  [s |-> s1, buf |-> build_buf(s1), table |-> build_table(s1)]

NoTable == [first_key |-> <<>>, last_key |-> <<>>, block_meta |-> <<>>,
            block_meta_offset |-> 0,
            bloom |-> [nbits |-> 0, k |-> 0, bits |-> {}], max_ts |-> 0]

NoIter == [exists |-> FALSE, blk_idx |-> 0, blk_iter |-> [block |-> <<>>, idx |-> 1]]

NoScan == [active |-> FALSE, out |-> <<>>]

\* The iterators over one shared table.  Each reader carries its iterator
\* and the result of its last call, and next to them the iterator and the
\* result the same calls give when the reader has the table for itself.
Readers == {1, 2}

NoReader == [it |-> NoIter, res |-> "none", solo |-> NoIter, solo_res |-> "none"]

Op(op, key, value, result) == [op |-> op, key |-> key, value |-> value, result |-> result]

Init ==
    /\ pc = "building"
    /\ \E size \in BlockSizes :
          /\ block_size = size
          /\ builder = new(size).builder
          /\ first_key = new(size).first_key
          /\ last_key = new(size).last_key
          /\ data = new(size).data
          /\ meta = new(size).meta
          /\ key_hashes = new(size).key_hashes
          /\ max_ts = new(size).max_ts
    /\ file = <<>>
    /\ corrupted = 0
    /\ table = NoTable
    /\ it = NoIter
    /\ readers = [r \in Readers |-> NoReader]
    /\ scan = NoScan
    /\ added = <<>>
    /\ seen_ts = {}
    /\ blocks = <<>>
    /\ last_op = Op("new", <<>>, <<>>, "ok")

SetBuilder(s) ==
    /\ builder' = s.builder
    /\ first_key' = s.first_key
    /\ last_key' = s.last_key
    /\ data' = s.data
    /\ meta' = s.meta
    /\ block_size' = s.block_size
    /\ key_hashes' = s.key_hashes
    /\ max_ts' = s.max_ts

Add(key, value, timestamp) ==
    /\ pc = "building"
    /\ Len(added) < MaxAdds
    /\ LET r == add(Self, key, value, timestamp)
       IN  /\ SetBuilder(r.s)
           /\ pc' = IF r.ok THEN "building" ELSE "panicked"
           /\ last_op' = Op("add", key, value, IF r.ok THEN "ok" ELSE "panic")
           /\ blocks' = IF Len(r.s.meta) > Len(meta) THEN Append(blocks, builder)
                        ELSE blocks
    /\ added' = Append(added, Entry(key, value))
    /\ seen_ts' = seen_ts \cup {timestamp}
    /\ UNCHANGED <<file, corrupted, table, it, readers, scan>>

\* build(); io_ok = FALSE when FileObject::create fails
Build(io_ok) ==
    /\ pc = "building"
    /\ LET r == build(Self)
       IN  /\ SetBuilder(r.s)
           /\ blocks' = Append(blocks, builder)
           /\ IF io_ok
              THEN /\ pc' = "built"
                   /\ file' = r.buf
                   /\ table' = r.table
                   /\ last_op' = Op("build", <<>>, <<>>, "ok")
              ELSE /\ pc' = "build_failed"
                   /\ UNCHANGED <<file, table>>
                   /\ last_op' = Op("build", <<>>, <<>>, "io_error")
    /\ UNCHANGED <<corrupted, it, readers, scan, added, seen_ts>>

----------------------------------------------------------------------------
(* SsTable, read side *)

\* SsTable::num_of_blocks
num_of_blocks(t) == Len(t.block_meta)

\* SsTable::find_block_idx: the rightmost block whose first key <= key, or 0
find_block_idx(t, key) ==
    LET le == {i \in 1 .. Len(t.block_meta) : KeyLeq(t.block_meta[i].first_key, key)}
    IN  IF le = {} THEN 0
        ELSE (CHOOSE i \in le : \A j \in le : j <= i) - 1

\* The byte range of block idx: its bytes and its trailing checksum
BlockRegion(t, f, idx) ==
    LET offset == t.block_meta[idx + 1].offset
        offset_end == IF idx + 1 < Len(t.block_meta)
                      THEN t.block_meta[idx + 2].offset
                      ELSE t.block_meta_offset
    IN  SubSeq(f, offset + 1, offset_end)

Ok(v) == [err |-> "ok", v |-> v]
Err(e) == [err |-> e, v |-> <<>>]

\* SsTable::read_block (no block cache); io_ok = FALSE when the read fails
read_block(t, f, idx, io_ok) ==
    IF ~io_ok THEN Err("io_error")
    ELSE LET region == BlockRegion(t, f, idx)
             n == Len(region)
         IN  IF n < 4 THEN Err("corruption")
             ELSE IF SubSeq(region, n - 3, n) # put_u32(Xxh32(SubSeq(region, 1, n - 4)))
                  THEN Err("corruption")
                  ELSE Ok(BlockDecode(SubSeq(region, 1, n - 4)))

\* A u32 read back from 4 bytes, at the reduced width
get_u32(b) == AsU32(256 * b[3] + b[4])
get_u32_le(b) == AsU32(b[1] + 256 * b[2])

RECURSIVE decode_block_meta(_, _)
decode_block_meta(bytes, pos) ==
    IF pos + 5 > Len(bytes) THEN <<>>
    ELSE LET fl == bytes[pos + 4]
             lp == pos + 5 + fl
         IN  IF lp > Len(bytes) THEN <<>>
             ELSE IF lp + bytes[lp] > Len(bytes) THEN <<>>
             ELSE <<BlockMeta(get_u32_le(SubSeq(bytes, pos, pos + 3)),
                              SubSeq(bytes, pos + 5, pos + 4 + fl),
                              SubSeq(bytes, lp + 1, lp + bytes[lp]))>>
                  \o decode_block_meta(bytes, lp + 1 + bytes[lp])

\* Bloom::decode
bloom_decode(bytes) ==
    IF bytes = <<>> THEN [nbits |-> 0, k |-> 0, bits |-> {}]
    ELSE [nbits |-> 8 * (Len(bytes) - 1),
          k |-> bytes[Len(bytes)],
          bits |-> {p \in 0 .. (8 * (Len(bytes) - 1) - 1) :
                      (bytes[(p \div 8) + 1] \div (2 ^ (p % 8))) % 2 = 1}]

\* SsTable::open: the whole-file checksum is verified, then the bloom and
\* the BlockMeta sections are located by their offsets and decoded
open(f) ==
    IF Len(f) < 12 THEN Err("corruption")
    ELSE IF SubSeq(f, Len(f) - 3, Len(f)) # put_u32(Xxh32(SubSeq(f, 1, Len(f) - 4)))
    THEN Err("corruption")
    ELSE LET bloom_offset == get_u32(SubSeq(f, Len(f) - 7, Len(f) - 4))
             meta_offset == IF bloom_offset < 4 THEN 0
                            ELSE get_u32(SubSeq(f, bloom_offset - 3, bloom_offset))
         IN  Ok([block_meta |-> decode_block_meta(SubSeq(f, meta_offset + 1,
                                                         bloom_offset - 4), 1),
                 block_meta_offset |-> meta_offset,
                 bloom |-> bloom_decode(SubSeq(f, bloom_offset + 1, Len(f) - 8))])

----------------------------------------------------------------------------
(* BlockIterator: a decoded block and the index of the current entry *)

blk_is_valid(bi) == bi.idx <= Len(bi.block)

blk_seek_to_first(block) == [block |-> block, idx |-> 1]

blk_seek_to_key(block, key) ==
    LET ge == {i \in 1 .. Len(block) : KeyLeq(key, block[i].key)}
    IN  [block |-> block,
         idx |-> IF ge = {} THEN Len(block) + 1
                 ELSE CHOOSE i \in ge : \A j \in ge : i <= j]

blk_next(bi) == IF blk_is_valid(bi) THEN [bi EXCEPT !.idx = @ + 1] ELSE bi

----------------------------------------------------------------------------
(* SsTableIterator *)

Pos(idx, bi) == [blk_idx |-> idx, blk_iter |-> bi]

\* SsTableIterator::initialize_first_block
initialize_first_block(t, f, io_ok) ==
    LET r == read_block(t, f, 0, io_ok)
    IN  IF r.err # "ok" THEN Err(r.err)
        ELSE Ok(Pos(0, blk_seek_to_first(r.v)))

\* initialize_key_block without the step to the next block
initialize_key_block_stay(t, f, key, io_ok1, io_ok2) ==
    LET blk_idx == find_block_idx(t, key)
        r == read_block(t, f, blk_idx, io_ok1)
    IN  IF r.err # "ok" THEN Err(r.err)
        ELSE Ok(Pos(blk_idx, blk_seek_to_key(r.v, key)))

\* SsTableIterator::initialize_key_block
initialize_key_block(t, f, key, io_ok1, io_ok2) ==
    LET blk_idx == find_block_idx(t, key)
        r == read_block(t, f, blk_idx, io_ok1)
    IN  IF r.err # "ok" THEN Err(r.err)
        ELSE LET blk_iter == blk_seek_to_key(r.v, key)
             IN  IF ~blk_is_valid(blk_iter)
                 THEN IF blk_idx + 1 < num_of_blocks(t)
                      THEN LET r2 == read_block(t, f, blk_idx + 1, io_ok2)
                           IN  IF r2.err # "ok" THEN Err(r2.err)
                               ELSE Ok(Pos(blk_idx + 1, blk_seek_to_first(r2.v)))
                      ELSE Ok(Pos(blk_idx + 1, blk_iter))
                 ELSE Ok(Pos(blk_idx, blk_iter))

\* SsTableIterator::is_valid
is_valid(i) == blk_is_valid(i.blk_iter)

\* SsTableIterator::key, SsTableIterator::value
key(i) == i.blk_iter.block[i.blk_iter.idx].key
value(i) == i.blk_iter.block[i.blk_iter.idx].value

\* next() that never loads the following block
next_in_block(i, t, f, io_ok) ==
    LET bi == blk_next(i.blk_iter)
    IN  IF ~blk_is_valid(bi) THEN Ok(Pos(i.blk_idx + 1, bi))
        ELSE Ok(Pos(i.blk_idx, bi))

\* SsTableIterator::next: the result and the iterator it leaves
next(i, t, f, io_ok) ==
    LET bi == blk_next(i.blk_iter)
    IN  IF ~blk_is_valid(bi)
        THEN IF i.blk_idx + 1 < num_of_blocks(t)
             THEN LET r == read_block(t, f, i.blk_idx + 1, io_ok)
                  IN  IF r.err # "ok"
                      THEN [err |-> r.err, v |-> Pos(i.blk_idx + 1, bi)]
                      ELSE Ok(Pos(i.blk_idx + 1, blk_seek_to_first(r.v)))
             ELSE Ok(Pos(i.blk_idx + 1, bi))
        ELSE Ok(Pos(i.blk_idx, bi))

Iter(p) == [exists |-> TRUE, blk_idx |-> p.blk_idx, blk_iter |-> p.blk_iter]

\* What a consumer that scans forward has read: a scan starts at a
\* seek_to_first and takes the current entry after each successful call
ScanStart(i) == [active |-> TRUE,
                 out |-> IF is_valid(i) THEN <<Entry(key(i), value(i))>> ELSE <<>>]

ScanStep(sc, was_valid, i) ==
    IF sc.active /\ was_valid /\ is_valid(i)
    THEN [sc EXCEPT !.out = Append(@, Entry(key(i), value(i)))]
    ELSE sc

\* The outcomes of the block reads of one call: all succeed, the first
\* fails, the second fails
IoOutcomes == {<<TRUE, TRUE>>, <<FALSE, TRUE>>, <<TRUE, FALSE>>}

\* create_and_seek_to_first: no iterator is returned on an error
CreateAndSeekToFirst(io_ok) ==
    /\ pc = "built"
    /\ ~it.exists
    /\ LET r == initialize_first_block(table, file, io_ok)
       IN  /\ it' = IF r.err = "ok" THEN Iter(r.v) ELSE it
           /\ scan' = IF r.err = "ok" THEN ScanStart(Iter(r.v)) ELSE NoScan
           /\ last_op' = Op("create_and_seek_to_first", <<>>, <<>>, r.err)
    /\ UNCHANGED <<pc, builder_vars, file, corrupted, table, readers, added, seen_ts,
                   blocks>>

CreateAndSeekToKey(k, io) ==
    /\ pc = "built"
    /\ ~it.exists
    /\ LET r == initialize_key_block(table, file, k, io[1], io[2])
       IN  /\ it' = IF r.err = "ok" THEN Iter(r.v) ELSE it
           /\ last_op' = Op("create_and_seek_to_key", k, <<>>, r.err)
    /\ scan' = NoScan
    /\ UNCHANGED <<pc, builder_vars, file, corrupted, table, readers, added, seen_ts,
                   blocks>>

SeekToFirst(io_ok) ==
    /\ pc = "built"
    /\ it.exists
    /\ LET r == initialize_first_block(table, file, io_ok)
       IN  /\ it' = IF r.err = "ok" THEN Iter(r.v) ELSE it
           /\ scan' = IF r.err = "ok" THEN ScanStart(Iter(r.v)) ELSE NoScan
           /\ last_op' = Op("seek_to_first", <<>>, <<>>, r.err)
    /\ UNCHANGED <<pc, builder_vars, file, corrupted, table, readers, added, seen_ts,
                   blocks>>

\* seek_to_key that stores the block index before the block is read
SeekToKeyIndexFirst(k, io) ==
    /\ pc = "built"
    /\ it.exists
    /\ LET r == initialize_key_block(table, file, k, io[1], io[2])
       IN  /\ it' = IF r.err = "ok" THEN Iter(r.v)
                    ELSE [it EXCEPT !.blk_idx = find_block_idx(table, k)]
           /\ last_op' = Op("seek_to_key", k, <<>>, r.err)
    /\ scan' = NoScan
    /\ UNCHANGED <<pc, builder_vars, file, corrupted, table, readers, added, seen_ts,
                   blocks>>

SeekToKey(k, io) ==
    /\ pc = "built"
    /\ it.exists
    /\ LET r == initialize_key_block(table, file, k, io[1], io[2])
       IN  /\ it' = IF r.err = "ok" THEN Iter(r.v) ELSE it
           /\ last_op' = Op("seek_to_key", k, <<>>, r.err)
    /\ scan' = NoScan
    /\ UNCHANGED <<pc, builder_vars, file, corrupted, table, readers, added, seen_ts,
                   blocks>>

NextCall(io_ok) ==
    /\ pc = "built"
    /\ it.exists
    /\ it.blk_idx < MaxBlkIdx
    /\ LET r == next(it, table, file, io_ok)
       IN  /\ it' = Iter(r.v)
           /\ scan' = IF r.err = "ok" THEN ScanStep(scan, is_valid(it), Iter(r.v))
                      ELSE NoScan
           /\ last_op' = Op("next", <<>>, <<>>, r.err)
    /\ UNCHANGED <<pc, builder_vars, file, corrupted, table, readers, added, seen_ts,
                   blocks>>

\* The table and the bytes build() produced, recomputed from the builder
\* it consumed
BuiltTable == build_table(Self)
BuiltFile == build_buf(Self)

\* The keys the readers of a shared table seek to: inside the table and
\* past its end
ReaderKeys == {<<1, 1>>, <<3>>}

\* The state of a reader after a call: a seek installs its position only
\* when it succeeded, next() leaves what it assigned before the error
AfterSeek(i, r) == IF r.err = "ok" THEN Iter(r.v) ELSE i

\* next() of one reader that moves the cursor of every reader of the table
ReaderNextShared(r, io_ok) ==
    /\ pc = "built"
    /\ readers[r].it.exists
    /\ readers[r].it.blk_idx < MaxBlkIdx
    /\ LET a == next(readers[r].it, table, file, io_ok)
           b == next(readers[r].solo, BuiltTable, file, io_ok)
       IN  readers' = [q \in Readers |->
                         IF q = r
                         THEN [it |-> Iter(a.v), res |-> a.err,
                               solo |-> Iter(b.v), solo_res |-> b.err]
                         ELSE [readers[q] EXCEPT !.it = IF @.exists THEN Iter(a.v) ELSE @]]
    /\ UNCHANGED <<pc, builder_vars, file, corrupted, table, it, scan, added, seen_ts,
                   blocks, last_op>>

\* seek_to_first of reader r (create_and_seek_to_first when it has no
\* iterator yet)
ReaderSeekToFirst(r, io_ok) ==
    /\ pc = "built"
    /\ LET a == initialize_first_block(table, file, io_ok)
           b == initialize_first_block(BuiltTable, file, io_ok)
       IN  readers' = [readers EXCEPT ![r] =
                         [it |-> AfterSeek(@.it, a), res |-> a.err,
                          solo |-> AfterSeek(@.solo, b), solo_res |-> b.err]]
    /\ UNCHANGED <<pc, builder_vars, file, corrupted, table, it, scan, added, seen_ts,
                   blocks, last_op>>

\* seek_to_key of reader r (create_and_seek_to_key when it has no iterator
\* yet)
ReaderSeekToKey(r, k, io) ==
    /\ pc = "built"
    /\ LET a == initialize_key_block(table, file, k, io[1], io[2])
           b == initialize_key_block(BuiltTable, file, k, io[1], io[2])
       IN  readers' = [readers EXCEPT ![r] =
                         [it |-> AfterSeek(@.it, a), res |-> a.err,
                          solo |-> AfterSeek(@.solo, b), solo_res |-> b.err]]
    /\ UNCHANGED <<pc, builder_vars, file, corrupted, table, it, scan, added, seen_ts,
                   blocks, last_op>>

\* next() of reader r
ReaderNext(r, io_ok) ==
    /\ pc = "built"
    /\ readers[r].it.exists
    /\ readers[r].it.blk_idx < MaxBlkIdx
    /\ LET a == next(readers[r].it, table, file, io_ok)
           b == next(readers[r].solo, BuiltTable, file, io_ok)
       IN  readers' = [readers EXCEPT ![r] =
                         [it |-> Iter(a.v), res |-> a.err,
                          solo |-> Iter(b.v), solo_res |-> b.err]]
    /\ UNCHANGED <<pc, builder_vars, file, corrupted, table, it, scan, added, seen_ts,
                   blocks, last_op>>

----------------------------------------------------------------------------
(* The life of one table: keys arrive in strictly ascending order, the     *)
(* table is built, one iterator reads it.                                  *)

StrictlyAscending(k) ==
    IF added = <<>> THEN TRUE ELSE KeyLess(added[Len(added)].key, k)

Next ==
    \/ \E k \in Keys, v \in Values : StrictlyAscending(k) /\ Add(k, v, 1)
    \/ \E io_ok \in BOOLEAN : Build(io_ok)
    \/ \E io_ok \in BOOLEAN : CreateAndSeekToFirst(io_ok)
    \/ \E k \in SeekKeys, io \in IoOutcomes : CreateAndSeekToKey(k, io)
    \/ \E io_ok \in BOOLEAN : SeekToFirst(io_ok)
    \/ \E k \in SeekKeys, io \in IoOutcomes : SeekToKey(k, io)
    \/ \E io_ok \in BOOLEAN : NextCall(io_ok)

Spec == Init /\ [][Next]_vars

(* A table with one byte changed on disk after build(), then read *)

\* The values a changed byte can take in the model: the byte plus one, and
\* the byte with all bits flipped
Flips(b) == {(b + 1) % 256, 255 - b}

Corrupt(pos, b) ==
    /\ pc = "built"
    /\ corrupted = 0
    /\ ~it.exists
    /\ last_op.op = "build"
    /\ pos \in 1 .. Len(file)
    /\ b \in Flips(file[pos])
    /\ file' = [file EXCEPT ![pos] = b]
    /\ corrupted' = pos
    /\ UNCHANGED <<pc, builder_vars, table, it, readers, scan, added, seen_ts,
                   blocks, last_op>>

\* SsTable::open on the persisted bytes
Open ==
    /\ pc = "built"
    /\ ~it.exists
    /\ last_op.op # "open"
    /\ last_op' = Op("open", <<>>, <<>>, open(file).err)
    /\ UNCHANGED <<pc, builder_vars, file, corrupted, table, it, readers, scan,
                   added, seen_ts, blocks>>

NextCorrupt ==
    \/ \E k \in Keys : StrictlyAscending(k) /\ Add(k, <<7>>, 1)
    \/ Build(TRUE)
    \/ \E pos \in 1 .. Len(file) : \E b \in Flips(file[pos]) : Corrupt(pos, b)
    \/ Open
    \/ \E k \in SeekKeys : CreateAndSeekToKey(k, <<TRUE, TRUE>>)

SpecCorrupt == Init /\ [][NextCorrupt]_vars

(* One table shared by the readers, their calls interleaved in any order *)

NextShared ==
    \/ \E k \in Keys : StrictlyAscending(k) /\ Add(k, <<7>>, 1)
    \/ Build(TRUE)
    \/ \E r \in Readers, io_ok \in BOOLEAN : ReaderSeekToFirst(r, io_ok)
    \/ \E r \in Readers, k \in ReaderKeys, io \in IoOutcomes : ReaderSeekToKey(r, k, io)
    \/ \E r \in Readers, io_ok \in BOOLEAN : ReaderNext(r, io_ok)

SpecShared == Init /\ [][NextShared]_vars

(* A table whose data section outgrows the u32 range (at the reduced       *)
(* width): large values, one per block                                     *)

LargeValue == [i \in 1 .. 100 |-> 0]
LargeValues == {<<7>>, LargeValue}
LargeBlockSizes == {12, 110}

InitLarge ==
    /\ pc = "building"
    /\ \E size \in LargeBlockSizes :
          /\ block_size = size
          /\ builder = new(size).builder
          /\ first_key = new(size).first_key
          /\ last_key = new(size).last_key
          /\ data = new(size).data
          /\ meta = new(size).meta
          /\ key_hashes = new(size).key_hashes
          /\ max_ts = new(size).max_ts
    /\ file = <<>>
    /\ corrupted = 0
    /\ table = NoTable
    /\ it = NoIter
    /\ readers = [r \in Readers |-> NoReader]
    /\ scan = NoScan
    /\ added = <<>>
    /\ seen_ts = {}
    /\ blocks = <<>>
    /\ last_op = Op("new", <<>>, <<>>, "ok")

NextLarge ==
    \/ \E k \in Keys, v \in LargeValues : StrictlyAscending(k) /\ Add(k, v, 1)
    \/ \E io_ok \in BOOLEAN : Build(io_ok)

SpecLarge == InitLarge /\ [][NextLarge]_vars

(* The builder alone: any keys in any order, any timestamps *)

NextBuilder ==
    \/ \E k \in Keys, v \in Values, ts \in Timestamps : Add(k, v, ts)
    \/ \E io_ok \in BOOLEAN : Build(io_ok)

SpecBuilder == Init /\ [][NextBuilder]_vars

----------------------------------------------------------------------------
(* Properties *)

Min(S) == CHOOSE x \in S : \A y \in S : x <= y

StrictlyIncreasing(es) ==
    \A i \in 1 .. (Len(es) - 1) : KeyLess(es[i].key, es[i + 1].key)

Current == Entry(key(it), value(it))

\* C1: round trip.  For strictly increasing keys, any values and any block
\* size, a scan from seek_to_first by next() until is_valid() is false has
\* yielded exactly the entries passed to add(), in order, each once; while
\* the scan runs it has yielded a prefix of them and stands on the next one.
C1_RoundTrip ==
    (pc = "built" /\ scan.active /\ StrictlyIncreasing(added)) =>
        /\ Len(scan.out) <= Len(added)
        /\ scan.out = SubSeq(added, 1, Len(scan.out))
        /\ ~is_valid(it) => scan.out = added

\* A scan that crossed two block boundaries and ended
C1_Witness ==
    /\ pc = "built" /\ scan.active /\ ~is_valid(it)
    /\ Len(added) = 3
    /\ num_of_blocks(table) = 3
    /\ scan.out = added

\* C2: seek_to_key(k) stands on the entry with the smallest key >= k of
\* the whole table, and is exhausted when there is none.
SeekOps == {"seek_to_key", "create_and_seek_to_key"}

C2_SeekToKey ==
    (pc = "built" /\ it.exists /\ last_op.op \in SeekOps /\ last_op.result = "ok"
       /\ StrictlyIncreasing(added)) =>
        LET ge == {i \in 1 .. Len(added) : KeyLeq(last_op.key, added[i].key)}
        IN  IF ge = {} THEN ~is_valid(it)
            ELSE is_valid(it) /\ Current = added[Min(ge)]

\* A seek to a key strictly between the last key of one block and the
\* first key of the next lands on the first entry of the next block
C2_Witness ==
    /\ pc = "built" /\ it.exists /\ last_op.op = "seek_to_key"
    /\ last_op.result = "ok"
    /\ is_valid(it)
    /\ it.blk_idx >= 1 /\ it.blk_iter.idx = 1
    /\ KeyLess(last_op.key, key(it))
    /\ KeyLess(table.block_meta[it.blk_idx].last_key, last_op.key)

\* C3: build() on a builder that received no add() returns an EmptyTable
\* error, returns no table and persists nothing.
C3_EmptyBuildFails ==
    (last_op.op = "build" /\ added = <<>>) =>
        /\ last_op.result = "empty_table"
        /\ table = NoTable
        /\ file = <<>>

\* The 4-byte encodings of a number below 2^32, most and least significant
\* byte first
BE4(v) == <<(v \div 16777216) % 256, (v \div 65536) % 256, (v \div 256) % 256, v % 256>>
LE4(v) == <<v % 256, (v \div 256) % 256, (v \div 65536) % 256, (v \div 16777216) % 256>>

RECURSIVE FinalizedSize(_)
FinalizedSize(bs) ==
    IF bs = <<>> THEN 0
    ELSE Len(BlockEncode(Head(bs))) + 4 + FinalizedSize(Tail(bs))

\* C5: estimated_size() is the byte length of the finalized blocks plus 4
\* bytes of checksum for each, without the open block; over add() calls it
\* never decreases, changes only in an add() that finalizes a block, and an
\* add() accepted by the open block leaves it unchanged.
C5_Step ==
    (last_op'.op = "add") =>
        /\ estimated_size(Self)' = FinalizedSize(blocks')
        /\ estimated_size(Self)' >= estimated_size(Self)
        /\ estimated_size(Self)' # estimated_size(Self) => Len(meta') = Len(meta) + 1
        /\ BlockBuilderAdd(builder, Entry(last_op'.key, last_op'.value), block_size)
              => estimated_size(Self)' = estimated_size(Self)

C5_EstimatedSize == [][C5_Step]_vars

\* An add() accepted by the open block after a block was finalized
C5_Witness ==
    /\ pc = "building" /\ last_op.op = "add"
    /\ Len(meta) >= 1 /\ Len(builder) >= 2
    /\ estimated_size(Self) > 0

\* C6: for strictly increasing keys, after build() every BlockMeta entry
\* has first key <= last key, the first keys strictly increase, and each
\* block's last key is below the next block's first key.
C6_MetaOrdered ==
    (pc = "built" /\ StrictlyIncreasing(added)) =>
        /\ \A i \in 1 .. Len(table.block_meta) :
              KeyLeq(table.block_meta[i].first_key, table.block_meta[i].last_key)
        /\ \A i \in 1 .. (Len(table.block_meta) - 1) :
              /\ KeyLess(table.block_meta[i].first_key, table.block_meta[i + 1].first_key)
              /\ KeyLess(table.block_meta[i].last_key, table.block_meta[i + 1].first_key)

RECURSIVE BlocksWithChecksums(_)
BlocksWithChecksums(bs) ==
    IF bs = <<>> THEN <<>>
    ELSE BlockEncode(Head(bs)) \o BE4(Xxh32(BlockEncode(Head(bs))))
         \o BlocksWithChecksums(Tail(bs))

MetaSection == encode_block_meta(table.block_meta)
BloomSection == bloom_encode(table.bloom)
MetaStart == table.block_meta_offset
BloomStart == MetaStart + Len(MetaSection) + 4

\* C7: the persisted buffer is, in this order: every block followed by its
\* 4-byte checksum, the BlockMeta section, 4 bytes with the offset of the
\* BlockMeta section (as u32), the bloom section, 4 bytes with the offset of
\* the bloom section (as u32), and 4 bytes of checksum over all bytes before
\* them; nothing follows.
C7_Layout ==
    (pc = "built") =>
        /\ SubSeq(file, 1, MetaStart) = BlocksWithChecksums(blocks)
        /\ SubSeq(file, MetaStart + 1, MetaStart + Len(MetaSection)) = MetaSection
        /\ SubSeq(file, BloomStart - 3, BloomStart) = BE4(AsU32(MetaStart))
        /\ SubSeq(file, BloomStart + 1, BloomStart + Len(BloomSection)) = BloomSection
        /\ SubSeq(file, BloomStart + Len(BloomSection) + 1,
                  BloomStart + Len(BloomSection) + 4) = BE4(AsU32(BloomStart))
        /\ Len(file) = BloomStart + Len(BloomSection) + 8
        /\ SubSeq(file, Len(file) - 3, Len(file))
              = BE4(Xxh32(SubSeq(file, 1, Len(file) - 4)))

\* A persisted table of three blocks
C7_Witness ==
    /\ pc = "built"
    /\ Len(blocks) = 3
    /\ Len(file) > MetaStart + 12

\* The four kinds of fixed-width fields of the persisted buffer, each with
\* the number it holds
BlockEnd(i) ==
    IF i < Len(table.block_meta) THEN table.block_meta[i + 1].offset ELSE MetaStart

Fields ==
    {<<SubSeq(file, BlockEnd(i) - 3, BlockEnd(i)),
       Xxh32(SubSeq(file, table.block_meta[i].offset + 1, BlockEnd(i) - 4))>> :
         i \in 1 .. Len(table.block_meta)}
    \cup {<<SubSeq(file, BloomStart - 3, BloomStart), AsU32(MetaStart)>>,
          <<SubSeq(file, Len(file) - 7, Len(file) - 4), AsU32(BloomStart)>>,
          <<SubSeq(file, Len(file) - 3, Len(file)),
            Xxh32(SubSeq(file, 1, Len(file) - 4))>>}

\* C8 as stated: every fixed-width integer of the persisted table is 4
\* bytes in little-endian order.
C8_LittleEndian == (pc = "built") => \A f \in Fields : f[1] = LE4(f[2])

\* C8, amended: every fixed-width integer the builder writes (each block
\* checksum, block_meta_offset, bloom_offset, the whole-file checksum) is 4
\* bytes in big-endian order.
C8_BigEndian == (pc = "built") => \A f \in Fields : f[1] = BE4(f[2])

\* A persisted table whose fields are not all zero
C8_Witness ==
    /\ pc = "built"
    /\ Len(table.block_meta) >= 2
    /\ \A f \in Fields : f[2] # 0

RECURSIVE Concat(_)
Concat(bs) == IF bs = <<>> THEN <<>> ELSE Head(bs) \o Concat(Tail(bs))

\* C9: add() never drops an entry.  When it returns normally the entry is
\* the last one of the open block and every entry added so far is in a
\* finalized block or in the open block, in order; it fails (the assertion)
\* exactly when an empty block rejects the entry.
C9_NoSilentDrop ==
    (last_op.op = "add") =>
        LET e == Entry(last_op.key, last_op.value)
        IN  /\ last_op.result \in {"ok", "panic"}
            /\ last_op.result = "ok" =>
                  /\ pc = "building"
                  /\ builder # <<>>
                  /\ builder[Len(builder)] = e
                  /\ Concat(blocks) \o builder = added
            /\ last_op.result = "panic" <=> ~BlockBuilderAdd(<<>>, e, block_size)
            /\ last_op.result = "panic" => pc = "panicked"

\* An add() that finalized the open block and put the entry in a fresh one
C9_Witness ==
    /\ pc = "building" /\ last_op.op = "add" /\ last_op.result = "ok"
    /\ Len(meta) >= 1
    /\ builder = <<Entry(last_op.key, last_op.value)>>

\* The iterator is positioned: a block index below the block count and the
\* cursor on an entry of that block
Positioned(i, t, f) ==
    /\ i.blk_idx < num_of_blocks(t)
    /\ i.blk_iter.block = read_block(t, f, i.blk_idx, TRUE).v
    /\ i.blk_iter.idx \in 1 .. Len(i.blk_iter.block)

\* C10: after calls that returned Ok, is_valid() is true exactly when the
\* iterator is positioned; and when is_valid() is false after a successful
\* seek, or after a next() made from a positioned state, blk_idx equals
\* num_of_blocks().
C10_Step ==
    (pc' = "built" /\ it'.exists /\ last_op'.result = "ok"
       /\ last_op'.op \in {"create_and_seek_to_first", "create_and_seek_to_key",
                          "seek_to_first", "seek_to_key", "next"}) =>
        /\ is_valid(it') <=> Positioned(it', table', file')
        /\ (/\ ~is_valid(it')
            /\ (last_op'.op = "next" => Positioned(it, table, file)))
              => it'.blk_idx = num_of_blocks(table')

C10_ValidIffPositioned == [][C10_Step]_vars

\* The bytes of block i with its checksum, of the BlockMeta section and of
\* the bloom section, as sets of file offsets (from 1)
BlockBytes(i) == (table.block_meta[i].offset + 1) .. BlockEnd(i)
MetaBytes == (MetaStart + 1) .. (BloomStart - 4)
BloomBytes == (BloomStart + 1) .. (Len(file) - 8)

\* C4: the table as built reads back; after a change of one byte inside a
\* block's region, the read of that block fails with a corruption error and
\* no iterator stands on the block; after a change of one byte inside the
\* BlockMeta or bloom section, opening the table fails with a corruption
\* error.
C4_ChecksumDetection ==
    (pc = "built") =>
        /\ corrupted = 0 =>
              /\ \A i \in 1 .. num_of_blocks(table) :
                    read_block(table, file, i - 1, TRUE) = Ok(blocks[i])
              /\ open(file).err = "ok"
              /\ open(file).v.block_meta = table.block_meta
              /\ open(file).v.bloom = table.bloom
        /\ \A i \in 1 .. num_of_blocks(table) :
              corrupted \in BlockBytes(i) =>
                  /\ read_block(table, file, i - 1, TRUE) = Err("corruption")
                  /\ ~(it.exists /\ it.blk_idx = i - 1)
        /\ corrupted \in (MetaBytes \cup BloomBytes) => open(file) = Err("corruption")
        /\ (corrupted # 0 /\ last_op.op = "open") => last_op.result = "corruption"

\* A seek that had to read a block with a changed byte and failed
C4_Witness ==
    /\ pc = "built"
    /\ \E i \in 1 .. num_of_blocks(table) : corrupted \in BlockBytes(i)
    /\ last_op.op = "create_and_seek_to_key"
    /\ last_op.result = "corruption"
    /\ ~it.exists

\* What a caller sees of an iterator: is_valid() and, when valid, the entry
Observed(i) ==
    IF i.exists /\ is_valid(i) THEN <<TRUE, key(i), value(i)>> ELSE <<FALSE>>

KeyHashes(es) == [i \in 1 .. Len(es) |-> Xxh32(es[i].key)]

\* C12: every add() records the hash of its key exactly once, accepted by
\* the open block or after a finalization and retry; build() makes the
\* bloom filter from all recorded hashes at the bits-per-key of the 1%
\* target; so the built table's filter answers true for the hash of every
\* key passed to add().
C12_BloomSound ==
    /\ key_hashes = KeyHashes(added)
    /\ (pc = "built") =>
          /\ table.bloom = build_from_key_hashes(KeyHashes(added),
                                                 bloom_bits_per_key(Len(added)))
          /\ \A i \in 1 .. Len(added) : may_contain(table.bloom, Xxh32(added[i].key))

\* A table of several blocks built from three keys whose filter rejects
\* some hash
C12_Witness ==
    /\ pc = "built"
    /\ Len(added) = 3
    /\ Len(table.block_meta) >= 2
    /\ \E h \in 0 .. (U32Mod - 1) : ~may_contain(table.bloom, h)

\* C13: the table returned by build() has as min key the first key of the
\* first BlockMeta entry and as max key the last key of the last one; for
\* strictly increasing keys these are the first and the last key passed to
\* add(), and every key of the table lies between them.
C13_MinMaxKey ==
    (pc = "built") =>
        /\ table.first_key = table.block_meta[1].first_key
        /\ table.last_key = table.block_meta[Len(table.block_meta)].last_key
        /\ (added # <<>> /\ StrictlyIncreasing(added)) =>
              /\ table.first_key = added[1].key
              /\ table.last_key = added[Len(added)].key
              /\ \A i \in 1 .. Len(added) :
                    /\ KeyLeq(table.first_key, added[i].key)
                    /\ KeyLeq(added[i].key, table.last_key)

\* C13 for tables whose first key is not the empty key
C13_MinMaxKeyNonEmptyFirst ==
    (pc = "built" /\ added # <<>> /\ added[1].key # <<>>) => C13_MinMaxKey

\* The largest of a set of timestamps, 0 for none
MaxOf(S) == IF S = {} THEN 0 ELSE CHOOSE x \in S : \A y \in S : y <= x

\* C14: over add() calls the watermark max_ts never decreases, whatever
\* timestamps the calls observe; it is the largest timestamp observed so
\* far, and the table returned by build() carries it.
C14_Step ==
    /\ max_ts' >= max_ts
    /\ max_ts' = MaxOf(seen_ts')
    /\ (pc' = "built") => table'.max_ts = MaxOf(seen_ts')

C14_Watermark == [][C14_Step]_vars

\* A table built after add() calls that observed both timestamps
C14_Witness ==
    /\ pc = "built"
    /\ seen_ts = Timestamps
    /\ Len(added) >= 2
    /\ table.max_ts = 2

\* C15: for every key sequence, the empty key included, each BlockMeta
\* entry records as first key the key of the first entry placed in its
\* block and as last key the key of the last entry placed in it; while a
\* block is open its recorded first key is the key of its first entry, so
\* no later entry of the block replaces it.
C15_MetaKeys ==
    /\ Len(meta) = Len(blocks)
    /\ \A i \in 1 .. Len(blocks) :
          blocks[i] # <<>> =>
              /\ meta[i].first_key = blocks[i][1].key
              /\ meta[i].last_key = blocks[i][Len(blocks[i])].key
    /\ (pc = "building" /\ builder # <<>>) =>
          /\ first_key = builder[1].key
          /\ last_key = builder[Len(builder)].key

\* C15 for sequences without the empty key
C15_MetaKeysNoEmptyKey ==
    (\A i \in 1 .. Len(added) : added[i].key # <<>>) => C15_MetaKeys

\* The block finalized by a step, encoded
Finalized == BlockEncode(blocks'[Len(blocks')])

\* C16: the data section is append-only and its index is exact.  A step
\* that finalizes a block appends the encoded block and then the 4-byte
\* checksum of exactly those bytes, and records as offset the data length
\* before the append; any other step leaves the data as it is.  Hence the
\* first offset is 0, each next offset is the previous one plus the block
\* length plus 4, block_meta_offset is the end of the last checksum, and
\* the bytes of a finalized block and its checksum never change, up to the
\* persisted file.
C16_Step ==
    /\ SubSeq(data', 1, Len(data)) = data
    /\ IF Len(meta') > Len(meta)
       THEN /\ Len(meta') = Len(meta) + 1
            /\ SubSeq(meta', 1, Len(meta)) = meta
            /\ meta'[Len(meta')].offset = Len(data)
            /\ data' = data \o Finalized \o BE4(Xxh32(Finalized))
       ELSE data' = data /\ meta' = meta
    /\ meta' # <<>> => meta'[1].offset = 0
    /\ \A i \in 1 .. (Len(meta') - 1) :
          meta'[i + 1].offset = meta'[i].offset + Len(BlockEncode(blocks'[i])) + 4
    /\ (pc' = "built") =>
          /\ table'.block_meta = meta'
          /\ table'.block_meta_offset = Len(data')
          /\ table'.block_meta_offset
                = meta'[Len(meta')].offset + Len(BlockEncode(blocks'[Len(meta')])) + 4
          /\ SubSeq(file', 1, Len(data')) = data'

C16_DataAppendOnly == [][C16_Step]_vars

\* A table of three blocks, the last one finalized by build()
C16_Witness ==
    /\ pc = "built"
    /\ Len(table.block_meta) = 3
    /\ table.block_meta[3].offset > table.block_meta[2].offset
    /\ table.block_meta[2].offset > 0
    /\ Len(blocks[3]) >= 1

\* C17: every block the builder finalizes is non-empty.  After add() calls
\* and build() every BlockMeta entry describes a block of at least one
\* entry, as built and as read back, so a next() that leaves a block for
\* an existing next block stands on an entry.
C17_Step ==
    (pc' = "built") =>
        /\ \A i \in 1 .. Len(table'.block_meta) :
              /\ blocks'[i] # <<>>
              /\ read_block(table', file', i - 1, TRUE).v # <<>>
        /\ (/\ last_op'.op = "next" /\ last_op'.result = "ok"
            /\ it'.blk_idx = it.blk_idx + 1
            /\ it'.blk_idx < num_of_blocks(table'))
              => is_valid(it')

C17_NonEmptyBlocks == [][C17_Step]_vars

\* C17 for tables built from at least one entry
C17_NonEmptyBlocksAfterAdd == [][added' # <<>> => C17_Step]_vars

\* The iterator is exhausted: the cursor is on no entry and no further
\* block exists
Exhausted(i, t) == ~is_valid(i) /\ i.blk_idx + 1 >= num_of_blocks(t)

\* Once exhausted, next() returns Ok and the iterator stays exhausted
C18_StableStep ==
    (last_op'.op = "next" /\ it.exists /\ Exhausted(it, table)) =>
        /\ last_op'.result = "ok"
        /\ ~is_valid(it')
        /\ Exhausted(it', table')

\* C18: exhaustion is stable and bounded.  Once the iterator is exhausted
\* every further next() returns Ok and leaves is_valid() false, and in
\* every iterator state blk_idx <= num_of_blocks().
C18_Step ==
    /\ C18_StableStep
    /\ it'.exists => it'.blk_idx <= num_of_blocks(table')

C18_ExhaustionStable == [][C18_Step]_vars

\* The stable half of C18 alone
C18_StableOnly == [][C18_StableStep]_vars

\* The true offsets of the BlockMeta section and of the bloom section in
\* the persisted buffer, and the 4-byte fields that hold them
TrueMetaOffset == Len(data)
TrueBloomOffset == Len(data) + Len(encode_block_meta(meta)) + 4
MetaOffsetField == SubSeq(file, TrueBloomOffset - 3, TrueBloomOffset)
BloomOffsetField == SubSeq(file, Len(file) - 7, Len(file) - 4)

\* C19: the block_meta_offset and bloom_offset fields written by build()
\* hold the true offsets of the two sections, and block_meta_offset of the
\* returned table equals the persisted field, for every buffer length.
C19_OffsetsExact ==
    (pc = "built") =>
        /\ get_u32(MetaOffsetField) = TrueMetaOffset
        /\ get_u32(BloomOffsetField) = TrueBloomOffset
        /\ table.block_meta_offset = get_u32(MetaOffsetField)

\* C19 for buffers below the u32 range
C19_OffsetsExactInRange ==
    (pc = "built" /\ Len(file) < U32Mod) =>
        /\ C19_OffsetsExact
        /\ Len(file) > 12

\* C20: a seek_to_first or seek_to_key that fails returns the error of the
\* failed read and leaves blk_idx and the block cursor as they were; a
\* failed read is not retried (the seek fails although a second attempt
\* would succeed); the new position is installed only by a seek whose
\* reads all succeeded.
C20_Step ==
    /\ (last_op'.op \in {"seek_to_first", "seek_to_key"} /\ last_op'.result # "ok") =>
          /\ last_op'.result \in {"io_error", "corruption"}
          /\ it' = it
    /\ (last_op'.op = "seek_to_first" /\ it' # it) =>
          /\ last_op'.result = "ok"
          /\ Ok(Pos(it'.blk_idx, it'.blk_iter)) = initialize_first_block(table, file, TRUE)
    /\ (last_op'.op = "seek_to_key" /\ it' # it) =>
          /\ last_op'.result = "ok"
          /\ Ok(Pos(it'.blk_idx, it'.blk_iter))
                = initialize_key_block(table, file, last_op'.key, TRUE, TRUE)
    /\ (last_op'.op = "seek_to_first") =>
          initialize_first_block(table, file, FALSE) = Err("io_error")
    /\ (last_op'.op = "seek_to_key") =>
          initialize_key_block(table, file, last_op'.key, FALSE, TRUE) = Err("io_error")

C20_FailedSeek == [][C20_Step]_vars

\* A seek_to_key to another block failed with the iterator standing on an
\* entry of a later block
C20_Witness ==
    /\ pc = "built" /\ it.exists
    /\ last_op.op = "seek_to_key" /\ last_op.result = "io_error"
    /\ is_valid(it)
    /\ it.blk_idx >= 1
    /\ find_block_idx(table, last_op.key) # it.blk_idx

====
